---- MODULE Spec2Model ----
(***************************************************************************)
(* A model of naver-blog.md: the image resolver (markdown/image.py), the   *)
(* renderer (markdown/render.py), the classifier and the listing fetch     *)
(* (blog/hooks.py, blog/components.py) and the crawl loop (crawl.py).      *)
(*                                                                         *)
(* Text is modelled as a sequence of tokens (each token a piece of the     *)
(* Python string); concatenation of strings is \o on the token sequences.  *)
(***************************************************************************)
EXTENDS Integers, Sequences, FiniteSets, TLC

(***************************************************************************)
(* Bounds of the model.                                                    *)
(***************************************************************************)
MaxSrcLen == 3
MaxBlocks == 2
MaxTotal == 4
MaxPerPage == 2
MaxPages == 4
MaxComponents == 2
MaxPosts == 2
MaxCrawls == 2
MaxPreviewLen == 3

(***************************************************************************)
(* markdown/image.py                                                       *)
(***************************************************************************)
PostfilesHost == "https://postfiles.pstatic.net/"
BlogfilesHost == "https://blogfiles.pstatic.net/"
VideoHost == "https://mblogvideo-phinf.pstatic.net/"

\* The pieces a source string is built from.
UrlTokens == {PostfilesHost, VideoHost, "dir/", "a.png", "b%20c+d.jpg", "?", "type=w80"}

SrcStrings == UNION {[1..n -> UrlTokens] : n \in 1..MaxSrcLen}

\* str.replace("postfiles", "blogfiles") on one piece
ReplacePostfiles(tok) == IF tok = PostfilesHost THEN BlogfilesHost ELSE tok

\* str.replace("https://mblogvideo-phinf.pstatic.net/", "https://blogfiles.pstatic.net/")
ReplaceVideoHost(tok) == IF tok = VideoHost THEN BlogfilesHost ELSE tok

\* src.split("?")[0]: the pieces before the first "?"
RECURSIVE BeforeQuery(_)
BeforeQuery(s) ==
    IF s = <<>> THEN <<>>
    ELSE IF Head(s) = "?" THEN <<>>
    ELSE <<Head(s)>> \o BeforeQuery(Tail(s))

_original_image_url(src) ==
    LET base == BeforeQuery(src)
    IN  [i \in 1..Len(base) |-> ReplaceVideoHost(ReplacePostfiles(base[i]))]

_identity(src) == src

\* a piece that ends in "/"
EndsWithSlash(tok) == tok \in {PostfilesHost, BlogfilesHost, VideoHost, "dir/"}

\* url.split("/")[-1]: the pieces after the last "/"
RECURSIVE LastSegment(_)
LastSegment(url) ==
    IF url = <<>> THEN <<>>
    ELSE IF EndsWithSlash(url[Len(url)]) THEN <<>>
    ELSE LastSegment(SubSeq(url, 1, Len(url) - 1)) \o <<url[Len(url)]>>

\* urllib.parse.unquote_plus on one piece: "+" becomes a space, %20 is decoded
UnquoteToken(tok) == IF tok = "b%20c+d.jpg" THEN "b c d.jpg" ELSE tok

unquote_plus(s) == [i \in 1..Len(s) |-> UnquoteToken(s[i])]

\* What the network and the filesystem do to one fetch.
FetchOutcomes == {"ok", "request_error", "http_error", "timeout", "write_error"}

RequestFailures == {"request_error", "http_error", "timeout"}

\* The resolver as it would be if its fallback returned the normalized url.
_fetch_image_processor_url(src, dirExists, image_src_prefix, outcome) ==
    IF ~dirExists
    THEN [raised |-> "AssertionError", value |-> <<>>, wrote |-> <<>>]
    ELSE LET url == _original_image_url(src)
             filename == unquote_plus(LastSegment(url))
         IN  IF outcome # "ok" \/ filename = <<>>
             THEN [raised |-> "none", value |-> url, wrote |-> <<>>]
             ELSE [raised |-> "none", value |-> image_src_prefix \o filename,
                   wrote |-> filename]

\* The result of one call of the fetch-local resolver: the value returned, or
\* the exception that leaves it.  dirExists is assets_directory.is_dir();
\* writing to an empty file name, which is the directory itself, fails.
_fetch_image_processor(src, dirExists, image_src_prefix, outcome) ==
    IF ~dirExists
    THEN [raised |-> "AssertionError", value |-> <<>>, wrote |-> <<>>]
    ELSE LET url == _original_image_url(src)
             filename == unquote_plus(LastSegment(url))
         IN  IF outcome \in RequestFailures
             THEN [raised |-> "none", value |-> src, wrote |-> <<>>]
             ELSE IF outcome = "write_error" \/ filename = <<>>
             THEN [raised |-> "none", value |-> src, wrote |-> <<>>]
             ELSE [raised |-> "none", value |-> image_src_prefix \o filename,
                   wrote |-> filename]

ImageVariants == {"default", "cdn", "fetch"}

\* use_image_processor(context)(src)
use_image_processor(variant, src, dirExists, image_src_prefix, outcome) ==
    CASE variant = "default" -> [raised |-> "none", value |-> _identity(src), wrote |-> <<>>]
      [] variant = "cdn" -> [raised |-> "none", value |-> _original_image_url(src), wrote |-> <<>>]
      [] variant = "fetch" -> _fetch_image_processor(src, dirExists, image_src_prefix, outcome)

(***************************************************************************)
(* markdown/models.py: the blocks.  A text field is a sequence of pieces.  *)
(***************************************************************************)
SectionTitleBlock(text) == [type |-> "SectionTitle", text |-> text]
ParagraphBlock(text) == [type |-> "Paragraph", text |-> text]
ImageBlock(src, alt) == [type |-> "Image", src |-> src, alt |-> alt]
ImageGroupBlock(images) == [type |-> "ImageGroup", images |-> images]
QuotationBlock(text, cite) == [type |-> "Quotation", text |-> text, cite |-> cite]
CodeBlock(code, language) == [type |-> "Code", code |-> code, language |-> language]
FileBlock(filename, file_url) == [type |-> "File", filename |-> filename, file_url |-> file_url]
HorizontalLineBlock == [type |-> "HorizontalLine"]
TableBlock(headers, rows) == [type |-> "Table", headers |-> headers, rows |-> rows]
MaterialBlock(content) == [type |-> "Material", content |-> content]
FormulaBlock(formula, display_mode) ==
    [type |-> "Formula", formula |-> formula, display_mode |-> display_mode]

(***************************************************************************)
(* markdown/render.py                                                      *)
(***************************************************************************)
\* pieces that consist of whitespace only
Whitespace == {"", " ", "\n", "\n\n"}

RECURSIVE LStrip(_)
LStrip(s) ==
    IF s = <<>> THEN <<>>
    ELSE IF Head(s) \in Whitespace THEN LStrip(Tail(s))
    ELSE s

RECURSIVE RStrip(_)
RStrip(s) ==
    IF s = <<>> THEN <<>>
    ELSE IF s[Len(s)] \in Whitespace THEN RStrip(SubSeq(s, 1, Len(s) - 1))
    ELSE s

\* str.strip()
Strip(s) == RStrip(LStrip(s))

\* "sep".join(parts), parts a sequence of texts
RECURSIVE Join(_, _)
Join(sep, parts) ==
    IF parts = <<>> THEN <<>>
    ELSE IF Len(parts) = 1 THEN parts[1]
    ELSE parts[1] \o sep \o Join(sep, Tail(parts))

\* text.split("\n"): the lines of a text
RECURSIVE SplitLines(_)
SplitLines(s) ==
    IF s = <<>> THEN << <<>> >>
    ELSE IF Head(s) = "\n" THEN << <<>> >> \o SplitLines(Tail(s))
    ELSE LET rest == SplitLines(Tail(s))
         IN  << <<Head(s)>> \o rest[1] >> \o Tail(rest)

\* row + [""] * (len(headers) - len(row)), then [:len(headers)]
PadRow(row, n) == [i \in 1..n |-> IF i <= Len(row) THEN row[i] ELSE <<>>]

\* A render context: the resolver variant and, for the fetch-local variant,
\* whether assets_directory exists, image_src_prefix, and what the network
\* and the filesystem do to the fetch of each source (outcomes).
\* _use_image_processor_with_fallback(**context)(src)
_use_image_processor_with_fallback(context, src) ==
    use_image_processor(context.variant, src, context.dirExists, context.image_src_prefix,
                        IF src \in DOMAIN context.outcomes THEN context.outcomes[src]
                        ELSE "request_error")

\* The images a generator expression resolves one after the other; a raise
\* of the resolver ends it.  R(src) is one call of the resolver.
RECURSIVE ResolveAll(_, _, _)
ResolveAll(images, context, acc) ==
    IF images = <<>> THEN acc
    ELSE LET r == _use_image_processor_with_fallback(context, Head(images).src)
         IN  IF r.raised # "none"
             THEN [raised |-> r.raised, parts |-> acc.parts,
                   calls |-> Append(acc.calls, Head(images).src)]
             ELSE ResolveAll(Tail(images), context,
                     [raised |-> "none",
                      parts |-> Append(acc.parts,
                                   <<"![">> \o Head(images).alt \o <<"](">> \o r.value \o <<")">>),
                      calls |-> Append(acc.calls, Head(images).src)])

Rendered(text) == [raised |-> "none", text |-> text, calls |-> <<>>]

\* One block as Markdown: the text, the resolver calls made for it (calls),
\* or the exception a resolver call raised.
_block_as_markdown(block, context) ==
    CASE block.type = "SectionTitle" ->
            Rendered(<<"## ">> \o Strip(block.text) \o <<"\n\n">>)
      [] block.type = "Paragraph" ->
            IF block.text = <<>> \/ block.text = <<"\n">> THEN Rendered(<<>>)
            ELSE Rendered(Strip(block.text) \o <<"\n\n">>)
      [] block.type = "Quotation" ->
            LET lines == SplitLines(Strip(block.text))
                quoted == Join(<<"\n">>, [i \in 1..Len(lines) |-> <<"> ">> \o lines[i]])
            IN  IF block.text = <<>> /\ block.cite = <<>> THEN Rendered(<<>>)
                ELSE IF block.cite = <<>> THEN Rendered(quoted \o <<"\n\n">>)
                ELSE Rendered(quoted \o <<"\n", ">", "\n", "> [em dash] ">> \o block.cite \o <<"\n\n">>)
      [] block.type = "Code" ->
            IF block.code = <<>> THEN Rendered(<<>>)
            ELSE IF block.language = <<>>
            THEN Rendered(<<"[fence]", "\n">> \o Strip(block.code) \o <<"\n", "[fence]", "\n\n">>)
            ELSE Rendered(<<"[fence]">> \o block.language \o <<"\n">> \o Strip(block.code)
                          \o <<"\n", "[fence]", "\n\n">>)
      [] block.type = "File" ->
            IF block.filename = <<>> /\ block.file_url = <<>> THEN Rendered(<<>>)
            ELSE Rendered(<<"[paperclip] [">> \o block.filename \o <<"](">> \o block.file_url
                          \o <<")", "\n\n">>)
      [] block.type = "HorizontalLine" -> Rendered(<<"---", "\n\n">>)
      [] block.type = "Formula" ->
            IF block.formula = <<>> THEN Rendered(<<>>)
            ELSE IF block.display_mode
            THEN Rendered(<<"$$", "\n">> \o block.formula \o <<"\n", "$$", "\n\n">>)
            ELSE Rendered(<<"$">> \o block.formula \o <<"$", "\n\n">>)
      [] block.type = "Table" ->
            IF block.headers = <<>> THEN Rendered(<<>>)
            ELSE LET n == Len(block.headers)
                     line(cells) == <<"| ">> \o Join(<<" | ">>, cells) \o <<" |">>
                     header_line == line(block.headers)
                     separator_line == line([i \in 1..n |-> <<"---">>])
                     data_lines == [i \in 1..Len(block.rows) |-> line(PadRow(block.rows[i], n))]
                 IN  Rendered(Join(<<"\n">>, <<header_line, separator_line>> \o data_lines)
                              \o <<"\n\n">>)
      [] block.type = "Material" ->
            IF block.content = <<>> THEN Rendered(<<>>)
            ELSE Rendered(<<"> [Material] ">> \o block.content \o <<"\n\n">>)
      [] block.type = "Image" ->
            IF block.src = <<>> THEN Rendered(<<>>)
            ELSE LET r == _use_image_processor_with_fallback(context, block.src)
                 IN  IF r.raised # "none"
                     THEN [raised |-> r.raised, text |-> <<>>, calls |-> <<block.src>>]
                     ELSE [raised |-> "none",
                           text |-> <<"![">> \o block.alt \o <<"](">> \o r.value \o <<")", "\n\n">>,
                           calls |-> <<block.src>>]
      [] block.type = "ImageGroup" ->
            IF block.images = <<>> THEN Rendered(<<>>)
            ELSE LET all == ResolveAll(block.images, context,
                                [raised |-> "none", parts |-> <<>>, calls |-> <<>>])
                 IN  IF all.raised # "none"
                     THEN [raised |-> all.raised, text |-> <<>>, calls |-> all.calls]
                     ELSE [raised |-> "none",
                           text |-> Join(<<" ">>, all.parts) \o <<"\n\n">>,
                           calls |-> all.calls]

\* Front matter: NoFrontMatter is None; otherwise a title and, when hasImage,
\* the field image.url.
NoFrontMatter == [present |-> FALSE, title |-> <<>>, hasImage |-> FALSE, url |-> <<>>]

\* The front matter as it would be if the image url were dumped unresolved.
_front_matter_as_yaml_unresolved(front_matter, context) ==
    LET head == <<"---", "\n", "title: ">> \o front_matter.title \o <<"\n">>
    IN  IF front_matter.hasImage
        THEN [raised |-> "none",
              text |-> head \o <<"image:", "\n", "  url: ">> \o front_matter.url
                       \o <<"\n", "---", "\n\n">>,
              calls |-> <<>>]
        ELSE [raised |-> "none", text |-> head \o <<"---", "\n\n">>, calls |-> <<>>]

\* yaml.safe_dump of the front matter between "---" lines; the image url goes
\* through the resolver first, and only when the field is there.
_front_matter_as_yaml(front_matter, context) ==
    LET head == <<"---", "\n", "title: ">> \o front_matter.title \o <<"\n">>
    IN  IF front_matter.hasImage
        THEN LET r == _use_image_processor_with_fallback(context, front_matter.url)
             IN  IF r.raised # "none"
                 THEN [raised |-> r.raised, text |-> <<>>, calls |-> <<front_matter.url>>]
                 ELSE [raised |-> "none",
                       text |-> head \o <<"image:", "\n", "  url: ">> \o r.value
                                \o <<"\n", "---", "\n\n">>,
                       calls |-> <<front_matter.url>>]
        ELSE [raised |-> "none", text |-> head \o <<"---", "\n\n">>, calls |-> <<>>]

\* The head of blocks_as_markdown: result is "" unless there is front matter.
FrontMatterResult(front_matter, context) ==
    IF front_matter.present THEN _front_matter_as_yaml(front_matter, context)
    ELSE Rendered(<<>>)

\* The tail of blocks_as_markdown as it would be if the renderings were
\* joined last to first.
blocks_as_markdown_reversed(result, rendered_blocks) ==
    LET n == Len(rendered_blocks)
    IN  [text |-> Strip(result \o Join(<<>>, [i \in 1..n |-> rendered_blocks[n + 1 - i].text]))
                  \o <<"\n">>,
         order |-> [i \in 1..n |-> rendered_blocks[n + 1 - i].idx]]

\* The tail of blocks_as_markdown: rendered_blocks is what map returned, each
\* entry the text of a block and the position idx the block had in the input.
\* (result + "".join(rendered_blocks)).strip() + "\n"
blocks_as_markdown(result, rendered_blocks) ==
    [text |-> Strip(result \o Join(<<>>, [i \in 1..Len(rendered_blocks) |->
                                              rendered_blocks[i].text])) \o <<"\n">>,
     order |-> [i \in 1..Len(rendered_blocks) |-> rendered_blocks[i].idx]]

(***************************************************************************)
(* blog/components.py and use_post.as_blocks of blog/hooks.py              *)
(*                                                                         *)
(* A fragment (one .se-component) is a record: cls is the discriminant     *)
(* (its second class token); the other fields are what the handlers select *)
(* from it.  imgs are its <img> elements, each with the caption of its own *)
(* image module; videos its <video> elements; hasData is whether the tag   *)
(* carries a "data" attribute.                                             *)
(***************************************************************************)
SrcA == <<PostfilesHost, "a.png", "?", "type=w80">>
SrcB == <<VideoHost, "b%20c+d.jpg">>

BaseFragment(cls) ==
    [cls |-> cls, text |-> <<>>, caption |-> <<>>, hasCaption |-> FALSE,
     paragraphs |-> <<>>, imgs |-> <<>>, videos |-> <<>>, rows |-> <<>>,
     hasCodeView |-> FALSE, language |-> <<>>, filename |-> <<>>,
     extension |-> <<>>, href |-> <<>>, cite |-> <<>>, hasData |-> FALSE]

Img(src, caption) == [src |-> src, caption |-> caption]

\* tag.get_text(strip=True).strip()
_text_from_tag(text) == Strip(text)

\* The functions blog/components.py defines.
ComponentsModule ==
    {"section_title_component", "text_component", "code_component", "file_component",
     "horizontal_line_component", "material_component", "table_component",
     "image_group_component", "image_strip_component", "quotation_component",
     "image_component"}

Yield(blocks) == [raised |-> "none", msg |-> <<>>, blocks |-> blocks]
Raise(exc, msg) == [raised |-> exc, msg |-> msg, blocks |-> <<>>]

section_title_component(c) == Yield(<<SectionTitleBlock(_text_from_tag(c.text))>>)

text_component(c) ==
    Yield([i \in 1..Len(c.paragraphs) |-> ParagraphBlock(_text_from_tag(c.paragraphs[i]))])

code_component(c) ==
    IF ~c.hasCodeView THEN Yield(<<CodeBlock(<<>>, <<>>)>>)
    ELSE Yield(<<CodeBlock(c.text, c.language)>>)

file_component(c) ==
    LET filename == _text_from_tag(c.filename)
        extension == _text_from_tag(c.extension)
        full_filename == IF filename # <<>> /\ extension # <<>> THEN filename \o extension
                         ELSE IF filename # <<>> THEN filename
                         ELSE <<"unknown">>
    IN  Yield(<<FileBlock(full_filename, c.href)>>)

horizontal_line_component(c) == Yield(<<HorizontalLineBlock>>)

material_component(c) == Yield(<<MaterialBlock(_text_from_tag(c.text))>>)

\* rows of the table that have at least one cell, the first row apart
RECURSIVE NonEmptyRows(_)
NonEmptyRows(rows) ==
    IF rows = <<>> THEN <<>>
    ELSE IF Head(rows) = <<>> THEN NonEmptyRows(Tail(rows))
    ELSE <<Head(rows)>> \o NonEmptyRows(Tail(rows))

table_component(c) ==
    IF c.rows = <<>> THEN Yield(<<TableBlock(<<>>, <<>>)>>)
    ELSE LET cells(row) == [i \in 1..Len(row) |-> _text_from_tag(row[i])]
             data == Tail(c.rows)
         IN  Yield(<<TableBlock(cells(c.rows[1]),
                                NonEmptyRows([i \in 1..Len(data) |-> cells(data[i])]))>>)

image_group_component(c) ==
    Yield(<<ImageGroupBlock([i \in 1..Len(c.imgs) |->
               ImageBlock(c.imgs[i].src,
                          IF c.hasCaption THEN _text_from_tag(c.caption) ELSE <<>>)])>>)

image_strip_component(c) ==
    Yield(<<ImageGroupBlock([i \in 1..Len(c.imgs) |->
               ImageBlock(c.imgs[i].src, _text_from_tag(c.imgs[i].caption))])>>)

quotation_component(c) ==
    Yield(<<QuotationBlock(_text_from_tag(c.text), _text_from_tag(c.cite))>>)

image_component(c) ==
    LET alt == IF c.hasCaption THEN _text_from_tag(c.caption) ELSE <<>>
    IN  IF c.imgs # <<>> /\ c.videos = <<>> THEN Yield(<<ImageBlock(c.imgs[1].src, alt)>>)
        ELSE IF c.imgs = <<>> /\ c.videos # <<>> THEN Yield(<<ImageBlock(c.videos[1], alt)>>)
        ELSE Raise("AssertionError", <<"Image and video are mutually exclusive">>)

\* Components.<name>(component): an attribute the module lacks is an
\* AttributeError at the call.
Components(name, c) ==
    IF name \notin ComponentsModule
    THEN Raise("AttributeError",
               <<"module 'naver_blog_md.blog.components' has no attribute ", name>>)
    ELSE CASE name = "section_title_component" -> section_title_component(c)
           [] name = "text_component" -> text_component(c)
           [] name = "code_component" -> code_component(c)
           [] name = "file_component" -> file_component(c)
           [] name = "horizontal_line_component" -> horizontal_line_component(c)
           [] name = "material_component" -> material_component(c)
           [] name = "table_component" -> table_component(c)
           [] name = "image_group_component" -> image_group_component(c)
           [] name = "image_strip_component" -> image_strip_component(c)
           [] name = "quotation_component" -> quotation_component(c)
           [] name = "image_component" -> image_component(c)

\* The "se-oembed" case: component.get('data', {}) is the value of the tag's
\* data attribute, a str, when the tag has one, and {} otherwise.
oembed(c) ==
    IF c.hasData
    THEN Raise("AttributeError", <<"'str' object has no attribute 'get'">>)
    ELSE Yield(<<>>)

\* One turn of the loop of as_blocks: what the match statement does with one
\* component.
as_blocks_case(c) ==
    CASE c.cls = "se-sectionTitle" -> Components("section_title_component", c)
      [] c.cls = "se-image" -> Components("image_component", c)
      [] c.cls = "se-imageGroup" -> Components("image_group_component", c)
      [] c.cls = "se-imageStrip" -> Components("image_strip_component", c)
      [] c.cls = "se-placesMap" -> Yield(<<>>)
      [] c.cls = "se-quotation" -> Components("quotation_component", c)
      [] c.cls = "se-code" -> Components("code_component", c)
      [] c.cls = "se-file" -> Components("file_component", c)
      [] c.cls = "se-horizontalLine" -> Components("horizontal_line_component", c)
      [] c.cls = "se-table" -> Components("table_component", c)
      [] c.cls = "se-text" -> Components("text_component", c)
      [] c.cls = "se-material" -> Components("material_component", c)
      [] c.cls = "se-sticker" -> Yield(<<>>)
      [] c.cls = "se-oglink" -> Yield(<<>>)
      [] c.cls = "se-oembed" -> oembed(c)
      [] c.cls = "se-wrappingParagraph" -> Components("wrapping_paragraph_component", c)
      [] c.cls = "se-formula" -> Components("formula_component", c)
      [] OTHER -> Raise("ValueError", <<"Unknown component type: ", c.cls>>)

\* The generator as_blocks run to its end over the components: the blocks
\* yielded, and the exception that ended it if one did.
RECURSIVE as_blocks(_)
as_blocks(components) ==
    IF components = <<>> THEN Yield(<<>>)
    ELSE LET r == as_blocks_case(Head(components))
         IN  IF r.raised # "none" THEN r
             ELSE LET rest == as_blocks(Tail(components))
                  IN  [raised |-> rest.raised, msg |-> rest.msg,
                       blocks |-> r.blocks \o rest.blocks]

\* _first_image_of_blocks(as_blocks()): the generator is advanced only as far
\* as the first image, so a later component is never looked at.
NoImage == [found |-> FALSE, src |-> <<>>, alt |-> <<>>]

RECURSIVE FirstImageOf(_)
FirstImageOf(blocks) ==
    IF blocks = <<>> THEN [raised |-> "none", done |-> FALSE, image |-> NoImage]
    ELSE LET b == Head(blocks)
         IN  IF b.type = "Image"
             THEN [raised |-> "none", done |-> TRUE,
                   image |-> [found |-> TRUE, src |-> b.src, alt |-> b.alt]]
             ELSE IF b.type = "ImageGroup"
             THEN IF b.images = <<>>
                  THEN [raised |-> "IndexError", done |-> TRUE, image |-> NoImage]
                  ELSE [raised |-> "none", done |-> TRUE,
                        image |-> [found |-> TRUE, src |-> b.images[1].src,
                                   alt |-> b.images[1].alt]]
             ELSE FirstImageOf(Tail(blocks))

RECURSIVE _first_image_of_blocks(_)
_first_image_of_blocks(components) ==
    IF components = <<>> THEN [raised |-> "none", msg |-> <<>>, image |-> NoImage]
    ELSE LET r == as_blocks_case(Head(components))
         IN  IF r.raised # "none" THEN [raised |-> r.raised, msg |-> r.msg, image |-> NoImage]
             ELSE LET f == FirstImageOf(r.blocks)
                  IN  IF f.raised # "none"
                      THEN [raised |-> f.raised, msg |-> <<"list index out of range">>,
                            image |-> NoImage]
                      ELSE IF f.done THEN [raised |-> "none", msg |-> <<>>, image |-> f.image]
                      ELSE _first_image_of_blocks(Tail(components))

(***************************************************************************)
(* State.                                                                  *)
(***************************************************************************)
VARIABLES
    \* one call of the fetch-local resolver
    ipc, isrc, idir, ioutcome, iresult,
    \* two calls of blocks_as_markdown on the same input, with 1 and 8 workers
    rblocks, rfront, rvariant, rdir, rout, rrun, rpc, rresult, rtasks,
    rcompleted, rcalls, rfmcalls, rdone,
    \* one call of posts() of use_blog
    ltotal, lper, lpc, lfirst, ltasks, lrequested, lfailed, lcompleted, lposts,
    \* the generator as_blocks() advanced over the components of one post
    ccomponents, cpos, cyielded, cstatus, cexc,
    \* crawl: the listing, the position of the loop, the files on disk
    klisting, kidx, kpc, kfilename, kmarkdown, kfiles, kdirs, kassets, krendered,
    kcreated, koutcome, kexc, krun,
    \* the day datetime.now() falls on, and whether the crawl before this one
    \* ended with no post failed
    kday, kclean,
    \* one call of _first_image_of_blocks: the blocks the iterator gives, how
    \* many it has given, and what the call came to
    pblocks, ppos, ppc, presult

imageVars == <<ipc, isrc, idir, ioutcome, iresult>>
renderVars == <<rblocks, rfront, rvariant, rdir, rout, rrun, rpc, rresult, rtasks,
                rcompleted, rcalls, rfmcalls, rdone>>
listingVars == <<ltotal, lper, lpc, lfirst, ltasks, lrequested, lfailed, lcompleted, lposts>>
classifyVars == <<ccomponents, cpos, cyielded, cstatus, cexc>>
crawlVars == <<klisting, kidx, kpc, kfilename, kmarkdown, kfiles, kdirs, kassets, krendered,
               kcreated, koutcome, kexc, krun, kday, kclean>>
previewVars == <<pblocks, ppos, ppc, presult>>
vars == <<imageVars, renderVars, listingVars, classifyVars, crawlVars, previewVars>>

ImagePrefix == <<"assets/post/">>

ImageOff ==
    /\ ipc = "off" /\ isrc = <<>> /\ idir = TRUE /\ ioutcome = "ok"
    /\ iresult = [raised |-> "none", value |-> <<>>, wrote |-> <<>>]

RenderSrcs == {SrcA, SrcB}

RenderOff ==
    /\ rblocks = <<>> /\ rfront = NoFrontMatter /\ rvariant = "default" /\ rdir = TRUE
    /\ rout = [s \in RenderSrcs |-> "ok"] /\ rrun = 0 /\ rpc = "off" /\ rresult = <<>>
    /\ rtasks = <<>> /\ rcompleted = <<>> /\ rcalls = [s \in RenderSrcs |-> 0]
    /\ rfmcalls = 0 /\ rdone = <<>>

ListingOff ==
    /\ ltotal = 0 /\ lper = 1 /\ lpc = "off" /\ lfirst = <<>> /\ ltasks = <<>>
    /\ lrequested = <<>> /\ lfailed = {} /\ lcompleted = <<>> /\ lposts = <<>>

NoException == [type |-> "none", msg |-> <<>>]

ClassifyOff ==
    /\ ccomponents = <<>> /\ cpos = 0 /\ cyielded = <<>> /\ cstatus = "off"
    /\ cexc = NoException

CrawlOff ==
    /\ klisting = <<>> /\ kidx = 0 /\ kpc = "off" /\ kfilename = <<>> /\ kmarkdown = <<>>
    /\ kfiles = {} /\ kdirs = {} /\ kassets = {} /\ krendered = {} /\ kcreated = {}
    /\ koutcome = <<>> /\ kexc = NoException /\ krun = 0
    /\ kday = 1 /\ kclean = FALSE

PreviewOff == pblocks = <<>> /\ ppos = 0 /\ ppc = "off" /\ presult = NoImage

(***************************************************************************)
(* The fetch-local resolver called once, on any source string and with any *)
(* behaviour of the network and the filesystem.                            *)
(***************************************************************************)
InitImage ==
    /\ ipc = "call"
    /\ isrc \in SrcStrings
    /\ idir \in BOOLEAN
    /\ ioutcome \in FetchOutcomes
    /\ iresult = [raised |-> "none", value |-> <<>>, wrote |-> <<>>]
    /\ RenderOff
    /\ ListingOff
    /\ ClassifyOff
    /\ CrawlOff
    /\ PreviewOff

FetchImage ==
    /\ ipc = "call"
    /\ iresult' = _fetch_image_processor(isrc, idir, ImagePrefix, ioutcome)
    /\ ipc' = IF iresult'.raised = "none" THEN "returned" ELSE "raised"
    /\ UNCHANGED <<isrc, idir, ioutcome, renderVars, listingVars, classifyVars, crawlVars, previewVars>>

NextImage == FetchImage

SpecImage == InitImage /\ [][NextImage]_vars

\* what the claim expects of a successful fetch
LocalPath(src) == ImagePrefix \o unquote_plus(LastSegment(_original_image_url(src)))

\* the request succeeded and there was a file to write
Fetched == ioutcome = "ok" /\ LastSegment(_original_image_url(isrc)) # <<>>

\* C10 as stated: the fetch-local resolver never raises, whatever fails (a
\* missing target directory included); on a failure it returns the source as
\* passed in, on success the prefix followed by the decoded last path segment
\* of the normalized url.
C10_NeverFailsCaller ==
    ipc # "call" =>
        /\ ipc = "returned"
        /\ iresult.raised = "none"
        /\ iresult.value = IF idir /\ Fetched THEN LocalPath(isrc) ELSE isrc

\* C10 as amended: with the target directory in place the resolver never
\* raises: on any failure of the request or of the write it returns the
\* source as passed in, on success the prefix followed by the decoded last
\* path segment of the normalized url; with the target directory missing its
\* opening assertion fails and the AssertionError reaches the caller.
C10_FallsBackToSource ==
    ipc # "call" =>
        IF idir
        THEN /\ ipc = "returned"
             /\ iresult.raised = "none"
             /\ iresult.value = IF Fetched THEN LocalPath(isrc) ELSE isrc
        ELSE ipc = "raised" /\ iresult.raised = "AssertionError"

\* C10 witness: a fetch that timed out, of a source the normalization
\* changes, has returned the source.
C10_Witness ==
    /\ ipc = "returned"
    /\ idir
    /\ ioutcome = "timeout"
    /\ _original_image_url(isrc) # isrc
    /\ iresult.value = isrc

(***************************************************************************)
(* blocks_as_markdown called twice on the same blocks and front matter,    *)
(* first with num_workers = 1 and then with num_workers = 8, the resolver  *)
(* behaving the same in both calls.                                        *)
(***************************************************************************)
NumWorkers == <<1, 8>>

RenderBlocks ==
    {ImageBlock(SrcA, <<"cap">>), ImageBlock(SrcB, <<>>), ImageBlock(<<>>, <<>>),
     ImageGroupBlock(<<ImageBlock(SrcA, <<>>), ImageBlock(SrcB, <<"cap">>)>>),
     ImageGroupBlock(<<>>), ParagraphBlock(<<"hello">>), HorizontalLineBlock}

FrontMatters ==
    {NoFrontMatter,
     [present |-> TRUE, title |-> <<"Post">>, hasImage |-> FALSE, url |-> <<>>],
     [present |-> TRUE, title |-> <<"Post">>, hasImage |-> TRUE, url |-> SrcA]}

\* The render context of the two calls.
RenderContext ==
    [variant |-> rvariant, dirExists |-> rdir, image_src_prefix |-> ImagePrefix,
     outcomes |-> rout]

NewTasks == [i \in 1..Len(rblocks) |-> [status |-> "pending", text |-> <<>>]]

InitRender ==
    /\ rblocks \in UNION {[1..n -> RenderBlocks] : n \in 0..MaxBlocks}
    /\ rfront \in FrontMatters
    /\ rvariant \in ImageVariants
    /\ rdir \in (IF rvariant = "fetch" THEN BOOLEAN ELSE {TRUE})
    /\ rout \in (IF rvariant = "fetch" THEN [RenderSrcs -> {"ok", "timeout"}]
                 ELSE {[s \in RenderSrcs |-> "ok"]})
    /\ rrun = 1
    /\ rpc = "front"
    /\ rresult = <<>>
    /\ rtasks = NewTasks
    /\ rcompleted = <<>>
    /\ rcalls = [s \in RenderSrcs |-> 0]
    /\ rfmcalls = 0
    /\ rdone = <<>>
    /\ ImageOff
    /\ ListingOff
    /\ ClassifyOff
    /\ CrawlOff
    /\ PreviewOff

\* the resolver calls counted
RECURSIVE Count(_, _)
Count(calls, src) ==
    IF calls = <<>> THEN 0
    ELSE (IF Head(calls) = src THEN 1 ELSE 0) + Count(Tail(calls), src)

Called(calls) == [s \in RenderSrcs |-> rcalls[s] + Count(calls, s)]

\* The call is over: its outcome is kept and the next call, if any, begins.
EndRun(outcome) ==
    /\ rdone' = Append(rdone, outcome)
    /\ rresult' = <<>>
    /\ rtasks' = NewTasks
    /\ rcompleted' = <<>>
    /\ rcalls' = [s \in RenderSrcs |-> 0]
    /\ rfmcalls' = 0
    /\ IF rrun < Len(NumWorkers)
       THEN rrun' = rrun + 1 /\ rpc' = "front"
       ELSE rrun' = rrun /\ rpc' = "finished"

\* blocks_as_markdown, lines 33-34
RenderFrontMatter ==
    /\ rpc = "front"
    /\ LET fm == FrontMatterResult(rfront, RenderContext)
       IN  IF fm.raised # "none"
           THEN EndRun([raised |-> fm.raised, text |-> <<>>, order |-> <<>>,
                        completed |-> <<>>, calls |-> Called(fm.calls),
                        fmcalls |-> Len(fm.calls)])
           ELSE /\ rresult' = fm.text
                /\ rcalls' = Called(fm.calls)
                /\ rfmcalls' = Len(fm.calls)
                /\ rpc' = "map"
                /\ UNCHANGED <<rrun, rtasks, rcompleted, rdone>>
    /\ UNCHANGED <<rblocks, rfront, rvariant, rdir, rout, imageVars, listingVars, classifyVars, crawlVars, previewVars>>

Running == {i \in 1..Len(rtasks) : rtasks[i].status = "running"}
Pending == {i \in 1..Len(rtasks) : rtasks[i].status = "pending"}

\* use_map: a worker that is free takes the next block of the input
PoolStart ==
    /\ rpc = "map"
    /\ Pending # {}
    /\ Cardinality(Running) < NumWorkers[rrun]
    /\ LET i == CHOOSE j \in Pending : \A k \in Pending : j <= k
       IN  rtasks' = [rtasks EXCEPT ![i].status = "running"]
    /\ UNCHANGED <<rblocks, rfront, rvariant, rdir, rout, rrun, rpc, rresult,
                   rcompleted, rcalls, rfmcalls, rdone, imageVars, listingVars, classifyVars, crawlVars, previewVars>>

\* use_map: a worker finishes its block, whichever worker is first
PoolFinish(i) ==
    /\ rpc = "map"
    /\ i \in Running
    /\ LET r == _block_as_markdown(rblocks[i], RenderContext)
       IN  IF r.raised # "none"
           THEN EndRun([raised |-> r.raised, text |-> <<>>, order |-> <<>>,
                        completed |-> Append(rcompleted, i), calls |-> Called(r.calls),
                        fmcalls |-> rfmcalls])
           ELSE /\ rtasks' = [rtasks EXCEPT ![i] = [status |-> "done", text |-> r.text]]
                /\ rcompleted' = Append(rcompleted, i)
                /\ rcalls' = Called(r.calls)
                /\ UNCHANGED <<rrun, rpc, rresult, rfmcalls, rdone>>
    /\ UNCHANGED <<rblocks, rfront, rvariant, rdir, rout, imageVars, listingVars, classifyVars, crawlVars, previewVars>>

\* use_map: what map returns once every worker is done, one entry per block
\* in the order of the input
use_map(tasks, completed) == [i \in 1..Len(tasks) |-> [idx |-> i, text |-> tasks[i].text]]

\* blocks_as_markdown, line 41
RenderAssemble ==
    /\ rpc = "map"
    /\ \A i \in 1..Len(rtasks) : rtasks[i].status = "done"
    /\ LET md == blocks_as_markdown(rresult, use_map(rtasks, rcompleted))
       IN  EndRun([raised |-> "none", text |-> md.text, order |-> md.order,
                   completed |-> rcompleted, calls |-> rcalls, fmcalls |-> rfmcalls])
    /\ UNCHANGED <<rblocks, rfront, rvariant, rdir, rout, imageVars, listingVars, classifyVars, crawlVars, previewVars>>

NextRender ==
    \/ RenderFrontMatter
    \/ PoolStart
    \/ \E i \in 1..Len(rtasks) : PoolFinish(i)
    \/ RenderAssemble

SpecRender == InitRender /\ [][NextRender]_vars

\* C1: the call with one worker and the call with eight workers end alike
\* and return the same text, and a call that returns has joined the
\* renderings of the blocks in the order of the input.
C1_SameTextForAnyWorkers ==
    Len(rdone) = 2 =>
        /\ rdone[1].raised = rdone[2].raised
        /\ rdone[1].text = rdone[2].text
        /\ \A k \in 1..2 :
              rdone[k].raised = "none" => rdone[k].order = [i \in 1..Len(rblocks) |-> i]

\* C1 witness: both calls returned, the eight workers having finished the
\* second block before the first, and the two blocks render differently.
C1_Witness ==
    /\ Len(rdone) = 2
    /\ rdone[1].raised = "none" /\ rdone[2].raised = "none"
    /\ rdone[1].completed = <<1, 2>>
    /\ rdone[2].completed = <<2, 1>>
    /\ rblocks[1].type = "Image" /\ rblocks[1].src # <<>>
    /\ rblocks[2].type = "Paragraph"
    /\ rdone[1].text = rdone[2].text

\* the image references of a block that rendering resolves
BlockRefs(b) ==
    IF b.type = "Image" THEN (IF b.src = <<>> THEN <<>> ELSE <<b.src>>)
    ELSE IF b.type = "ImageGroup" THEN [i \in 1..Len(b.images) |-> b.images[i].src]
    ELSE <<>>

RECURSIVE Sum(_)
Sum(ns) == IF ns = <<>> THEN 0 ELSE Head(ns) + Sum(Tail(ns))

\* how often the source occurs in the blocks and the front matter
References(src) ==
    Sum([i \in 1..Len(rblocks) |-> Count(BlockRefs(rblocks[i]), src)])
    + (IF rfront.present /\ rfront.hasImage /\ rfront.url = src THEN 1 ELSE 0)

\* C9 as stated: in a render call that returns, every source that occurs in
\* the post was resolved exactly once, and the resolver was not called for
\* the front matter when it has no image url.
C9_OncePerDistinctSource ==
    \A k \in 1..Len(rdone) :
        rdone[k].raised = "none" =>
            /\ \A s \in RenderSrcs : References(s) > 0 => rdone[k].calls[s] = 1
            /\ ~(rfront.present /\ rfront.hasImage) => rdone[k].fmcalls = 0

\* C9 as amended: in a render call that returns, the resolver was called
\* once per occurrence of an image reference, so a source that occurs n
\* times was resolved n times; and it was not called for the front matter
\* when that has no image url.
C9_OncePerOccurrence ==
    \A k \in 1..Len(rdone) :
        rdone[k].raised = "none" =>
            /\ \A s \in RenderSrcs : rdone[k].calls[s] = References(s)
            /\ rdone[k].fmcalls = IF rfront.present /\ rfront.hasImage THEN 1 ELSE 0

\* C9 witness: a call has returned for a post whose front matter image is
\* also its first image block; that source was resolved twice, once of them
\* for the front matter.
C9_Witness ==
    /\ Len(rdone) >= 1
    /\ rdone[1].raised = "none"
    /\ rfront.hasImage
    /\ Len(rblocks) >= 1 /\ rblocks[1] = ImageBlock(SrcA, <<"cap">>)
    /\ rdone[1].calls[SrcA] = 2
    /\ rdone[1].fmcalls = 1

(***************************************************************************)
(* use_blog.posts of blog/hooks.py: the listing fetch.                     *)
(*                                                                         *)
(* The server holds ltotal posts, log_no 1..ltotal, and serves them lper   *)
(* to a page; any request of a page may fail.                              *)
(***************************************************************************)
\* ceil(total_count / count_per_page)
Ceil(total_count, count_per_page) == (total_count + count_per_page - 1) \div count_per_page

Min(a, b) == IF a <= b THEN a ELSE b

\* post_list of the response to page page_number
PagePosts(page_number) ==
    LET first == (page_number - 1) * lper
        size == IF ltotal > first THEN Min(lper, ltotal - first) ELSE 0
    IN  [i \in 1..size |-> first + i]

TotalCounts == (0..MaxTotal) \cup {65}
PerPages == (1..MaxPerPage) \cup {30}

InitListing ==
    /\ ltotal \in TotalCounts
    /\ lper \in PerPages
    /\ Ceil(ltotal, lper) <= MaxPages
    /\ lpc = "first"
    /\ lfirst = <<>>
    /\ ltasks = <<>>
    /\ lrequested = <<>>
    /\ lfailed = {}
    /\ lcompleted = <<>>
    /\ lposts = <<>>
    /\ ImageOff
    /\ RenderOff
    /\ ClassifyOff
    /\ CrawlOff
    /\ PreviewOff

\* range(2, total_pages): the last page left out
RemainingPages_short(total_pages) == [i \in 1..(total_pages - 2) |-> i + 1]

\* range(2, total_pages + 1)
RemainingPages(total_pages) == [i \in 1..(total_pages - 1) |-> i + 1]

\* posts(), lines 119-140: the first page is requested with no handler
\* around it, so a failure of it leaves posts() as an exception.
FetchFirstPage ==
    /\ lpc = "first"
    /\ lrequested' = Append(lrequested, 1)
    /\ \E ok \in BOOLEAN :
        IF ~ok
        THEN /\ lpc' = "raised"
             /\ lfailed' = lfailed \cup {1}
             /\ UNCHANGED <<lfirst, ltasks, lposts>>
        ELSE LET total_count == ltotal
                 count_per_page == lper
                 total_pages == Ceil(total_count, count_per_page)
                 pages == RemainingPages(total_pages)
             IN  /\ lfirst' = PagePosts(1)
                 /\ lfailed' = lfailed
                 /\ IF total_count = 0
                    THEN lpc' = "done" /\ lposts' = <<>> /\ ltasks' = <<>>
                    ELSE IF total_pages = 1
                    THEN lpc' = "done" /\ lposts' = PagePosts(1) /\ ltasks' = <<>>
                    ELSE /\ lpc' = "map"
                         /\ lposts' = <<>>
                         /\ ltasks' = [i \in 1..Len(pages) |->
                                          [page |-> pages[i], status |-> "pending",
                                           posts |-> <<>>]]
    /\ UNCHANGED <<ltotal, lper, lcompleted, imageVars, renderVars, classifyVars, crawlVars, previewVars>>

\* _fetch_page_safe: the post list of the page, or [] when the request fails
_fetch_page_safe(page_number, ok) == IF ok THEN PagePosts(page_number) ELSE <<>>

PagesRunning == {i \in 1..Len(ltasks) : ltasks[i].status = "running"}
PagesPending == {i \in 1..Len(ltasks) : ltasks[i].status = "pending"}

PoolSize == 8

\* use_map(8): a free worker requests the next page
PagePoolStart ==
    /\ lpc = "map"
    /\ PagesPending # {}
    /\ Cardinality(PagesRunning) < PoolSize
    /\ LET i == CHOOSE j \in PagesPending : \A k \in PagesPending : j <= k
       IN  /\ ltasks' = [ltasks EXCEPT ![i].status = "running"]
           /\ lrequested' = Append(lrequested, ltasks[i].page)
    /\ UNCHANGED <<ltotal, lper, lpc, lfirst, lfailed, lcompleted, lposts,
                   imageVars, renderVars, classifyVars, crawlVars, previewVars>>

\* use_map(8): the request of a page ends, whichever ends first
PagePoolFinish(i) ==
    /\ lpc = "map"
    /\ i \in PagesRunning
    /\ \E ok \in BOOLEAN :
        /\ ltasks' = [ltasks EXCEPT ![i] =
                         [page |-> ltasks[i].page, status |-> "done",
                          posts |-> _fetch_page_safe(ltasks[i].page, ok)]]
        /\ lfailed' = IF ok THEN lfailed ELSE lfailed \cup {ltasks[i].page}
    /\ lcompleted' = Append(lcompleted, ltasks[i].page)
    /\ UNCHANGED <<ltotal, lper, lpc, lfirst, lrequested, lposts, imageVars, renderVars, classifyVars, crawlVars, previewVars>>

\* use_map(8): what map returns, one post list per page in the order of the
\* pages asked for
use_map_pages(tasks, completed) == [i \in 1..Len(tasks) |-> tasks[i].posts]

\* first_response.post_list + [item for items in remaining_pages for item in items]
all_posts(first_post_list, remaining_pages) == first_post_list \o Join(<<>>, remaining_pages)

\* posts(), lines 151-159
PostsAssemble ==
    /\ lpc = "map"
    /\ \A i \in 1..Len(ltasks) : ltasks[i].status = "done"
    /\ lposts' = all_posts(lfirst, use_map_pages(ltasks, lcompleted))
    /\ lpc' = "done"
    /\ UNCHANGED <<ltotal, lper, lfirst, ltasks, lrequested, lfailed, lcompleted,
                   imageVars, renderVars, classifyVars, crawlVars, previewVars>>

NextListing ==
    \/ FetchFirstPage
    \/ PagePoolStart
    \/ \E i \in 1..Len(ltasks) : PagePoolFinish(i)
    \/ PostsAssemble

SpecListing == InitListing /\ [][NextListing]_vars

\* the posts of pages 1..n in page order, a failed page giving none
RECURSIVE PostsUpTo(_)
PostsUpTo(n) ==
    IF n = 0 THEN <<>>
    ELSE PostsUpTo(n - 1) \o (IF n \in lfailed THEN <<>> ELSE PagePosts(n))

\* C2: when posts() returns and more than one page is needed, the pages
\* requested are page 1 and each of 2..N once, and the result is the posts
\* of pages 1, 2, ..., N in page order; 65 posts at 30 to a page are 3 pages
\* and, when no page fails, 65 items.
C2_PagesInOrder ==
    (lpc = "done" /\ Ceil(ltotal, lper) > 1) =>
        LET N == Ceil(ltotal, lper)
        IN  /\ Len(lrequested) = N
            /\ lrequested[1] = 1
            /\ {lrequested[i] : i \in 1..N} = 1..N
            /\ lposts = PostsUpTo(N)
            /\ (ltotal = 65 /\ lper = 30) => N = 3
            /\ (ltotal = 65 /\ lper = 30 /\ lfailed = {}) => Len(lposts) = 65

\* C2 witness: 65 posts at 30 to a page, page 3 answered before page 2, no
\* page failed, and posts() returned.
C2_Witness ==
    /\ lpc = "done"
    /\ ltotal = 65 /\ lper = 30
    /\ lcompleted = <<3, 2>>
    /\ lfailed = {}
    /\ Len(lposts) = 65

\* C3: no failure of the request of a page, page 1 included, leaves posts()
\* as an exception.
C3_NoPageFailureRaises == lpc # "raised"

(***************************************************************************)
(* use_post.as_blocks of blog/hooks.py advanced over the components of a   *)
(* post document, one component at a time.                                 *)
(***************************************************************************)
\* The discriminants the match statement of as_blocks names.
KnownVocabulary ==
    {"se-sectionTitle", "se-image", "se-imageGroup", "se-imageStrip", "se-placesMap",
     "se-quotation", "se-code", "se-file", "se-horizontalLine", "se-table", "se-text",
     "se-material", "se-sticker", "se-oglink", "se-oembed", "se-wrappingParagraph",
     "se-formula"}

\* Components of every known kind, well formed, and two of unknown kinds.
WellFormedComponents ==
    {[BaseFragment("se-sectionTitle") EXCEPT !.text = <<" ", "Title">>],
     [BaseFragment("se-image") EXCEPT !.imgs = <<Img(SrcA, <<>>)>>, !.hasCaption = TRUE,
                                      !.caption = <<"cap">>],
     [BaseFragment("se-image") EXCEPT !.videos = <<SrcB>>],
     [BaseFragment("se-imageGroup") EXCEPT !.imgs = <<Img(SrcA, <<>>), Img(SrcB, <<>>)>>,
                                           !.hasCaption = TRUE, !.caption = <<"cap">>],
     [BaseFragment("se-imageGroup") EXCEPT !.imgs = <<>>],
     [BaseFragment("se-imageStrip") EXCEPT !.imgs = <<Img(SrcA, <<"cap">>), Img(SrcB, <<>>)>>],
     BaseFragment("se-placesMap"),
     [BaseFragment("se-quotation") EXCEPT !.text = <<"hello", "\n", "world">>,
                                          !.cite = <<"Author">>],
     [BaseFragment("se-code") EXCEPT !.hasCodeView = TRUE, !.language = <<"python">>,
                                     !.text = <<"x = 1">>],
     [BaseFragment("se-file") EXCEPT !.filename = <<"report">>, !.extension = <<".pdf">>,
                                     !.href = <<"https://example/report.pdf">>],
     BaseFragment("se-horizontalLine"),
     [BaseFragment("se-table") EXCEPT !.rows = << <<<<"A">>, <<"B">>>>, <<<<"x">>>>, <<>> >>],
     [BaseFragment("se-text") EXCEPT !.paragraphs = << <<"hello">>, <<>> >>],
     [BaseFragment("se-material") EXCEPT !.text = <<"ad">>],
     BaseFragment("se-sticker"),
     BaseFragment("se-oglink"),
     BaseFragment("se-oembed"),
     [BaseFragment("se-wrappingParagraph") EXCEPT !.text = <<"wrapped">>],
     [BaseFragment("se-formula") EXCEPT !.text = <<"E = mc^2">>],
     BaseFragment("se-video"),
     BaseFragment("se-mrBlog")}

\* Components of a known kind that break what their handler expects.
MalformedComponents ==
    {BaseFragment("se-image"),
     [BaseFragment("se-oembed") EXCEPT !.hasData = TRUE]}

AllComponents == WellFormedComponents \cup MalformedComponents

InitClassify ==
    /\ ccomponents \in UNION {[1..n -> AllComponents] : n \in 0..MaxComponents}
    /\ cpos = 1
    /\ cyielded = <<>>
    /\ cstatus = "running"
    /\ cexc = NoException
    /\ ImageOff
    /\ RenderOff
    /\ ListingOff
    /\ CrawlOff
    /\ PreviewOff

\* as_blocks: one turn of the loop, which yields the blocks of the component
\* or raises
AsBlocksComponent ==
    /\ cstatus = "running"
    /\ cpos <= Len(ccomponents)
    /\ LET r == as_blocks_case(ccomponents[cpos])
       IN  IF r.raised # "none"
           THEN /\ cstatus' = "raised"
                /\ cexc' = [type |-> r.raised, msg |-> r.msg]
                /\ UNCHANGED <<cpos, cyielded>>
           ELSE /\ cyielded' = cyielded \o r.blocks
                /\ cpos' = cpos + 1
                /\ UNCHANGED <<cstatus, cexc>>
    /\ UNCHANGED <<ccomponents, imageVars, renderVars, listingVars, crawlVars, previewVars>>

\* as_blocks: the components are exhausted
AsBlocksEnd ==
    /\ cstatus = "running"
    /\ cpos > Len(ccomponents)
    /\ cstatus' = "exhausted"
    /\ UNCHANGED <<ccomponents, cpos, cyielded, cexc, imageVars, renderVars, listingVars, crawlVars, previewVars>>

NextClassify == AsBlocksComponent \/ AsBlocksEnd

SpecClassify == InitClassify /\ [][NextClassify]_vars

\* C4: as_blocks does not fail on a (well-formed) component whose
\* discriminant is one of the 17 known ones, and yields nothing for
\* placesMap, sticker and oglink.
C4_KnownDiscriminantsNeverFail ==
    /\ (cstatus = "raised" /\ ccomponents[cpos] \in WellFormedComponents)
           => ccomponents[cpos].cls \notin KnownVocabulary
    /\ \A c \in WellFormedComponents :
           c.cls \in {"se-placesMap", "se-sticker", "se-oglink"}
               => as_blocks_case(c) = Yield(<<>>)

(***************************************************************************)
(* crawl.py                                                                *)
(*                                                                         *)
(* A title is a sequence of characters.                                    *)
(***************************************************************************)
\* str.lower() of a character
Lower(ch) == IF ch = "P" THEN "p" ELSE ch

\* the characters [^\w\s가-힣-] matches
Punctuation == {"!", ","}

\* re.sub(r'\s+', '-', s): every run of spaces becomes one hyphen
RECURSIVE SpacesToHyphen(_)
SpacesToHyphen(s) ==
    IF s = <<>> THEN <<>>
    ELSE IF Head(s) = " "
    THEN IF Len(s) > 1 /\ s[2] = " " THEN SpacesToHyphen(Tail(s))
         ELSE <<"-">> \o SpacesToHyphen(Tail(s))
    ELSE <<Head(s)>> \o SpacesToHyphen(Tail(s))

\* re.sub(r'-+', '-', s): every run of hyphens becomes one hyphen
RECURSIVE CollapseHyphens(_)
CollapseHyphens(s) ==
    IF s = <<>> THEN <<>>
    ELSE IF Head(s) = "-" /\ Len(s) > 1 /\ s[2] = "-" THEN CollapseHyphens(Tail(s))
    ELSE <<Head(s)>> \o CollapseHyphens(Tail(s))

\* s.rsplit('-', 1)[0]: what stands before the last hyphen, or all of s
RECURSIVE BeforeLastHyphen(_)
BeforeLastHyphen(s) ==
    IF \A i \in 1..Len(s) : s[i] # "-" THEN s
    ELSE IF s[Len(s)] = "-" THEN SubSeq(s, 1, Len(s) - 1)
    ELSE BeforeLastHyphen(SubSeq(s, 1, Len(s) - 1))

max_length == 100

\* the days a crawl can run on, in order
Days == <<"2026-01-01", "2026-01-02">>

\* datetime.now().strftime("%Y-%m-%d")
Today == Days[kday]

to_filename(metadata) ==
    LET date_str == IF metadata.pubDate # "none" THEN metadata.pubDate ELSE Today
        title == metadata.title
        lowered == [i \in 1..Len(title) |-> Lower(title[i])]
        spaced == [i \in 1..Len(title) |->
                      IF lowered[i] \in Punctuation THEN " " ELSE lowered[i]]
        sanitized == CollapseHyphens(SpacesToHyphen(Strip(spaced)))
        cut == IF Len(sanitized) > max_length
               THEN BeforeLastHyphen(SubSeq(sanitized, 1, max_length))
               ELSE sanitized
    IN  <<date_str, "-">> \o cut

\* Metadata.metadata(root(), tags, preview_image()): the title and the date of
\* the post, and the preview image as the field image.url when there is one
Metadata_metadata(post, preview_image) ==
    [present |-> TRUE, title |-> post.title, pubDate |-> post.pubDate,
     hasImage |-> preview_image.found, url |-> preview_image.src]

\* The posts a listing is made of.
TextComponent == [BaseFragment("se-text") EXCEPT !.paragraphs = << <<"hello">> >>]
ImageComponent == [BaseFragment("se-image") EXCEPT !.imgs = <<Img(SrcA, <<>>)>>]
StripComponent ==
    [BaseFragment("se-imageStrip") EXCEPT !.imgs = <<Img(SrcA, <<"cap">>), Img(SrcB, <<>>)>>]
UnknownComponent == BaseFragment("se-video")
FormulaComponent == [BaseFragment("se-formula") EXCEPT !.text = <<"E = mc^2">>]

PostKinds ==
    {[log_no |-> 1, title |-> <<"P", "y">>, pubDate |-> "2025-11-09",
      components |-> <<TextComponent, ImageComponent>>],
     [log_no |-> 2, title |-> <<"p", "y", "!">>, pubDate |-> "2025-11-09",
      components |-> <<StripComponent>>],
     [log_no |-> 3, title |-> <<"a">>, pubDate |-> "2025-11-09",
      components |-> <<UnknownComponent, ImageComponent>>],
     [log_no |-> 4, title |-> <<"b">>, pubDate |-> "2025-11-09",
      components |-> <<ImageComponent, UnknownComponent>>],
     [log_no |-> 5, title |-> <<"c">>, pubDate |-> "2025-11-09",
      components |-> <<FormulaComponent>>],
     [log_no |-> 6, title |-> <<"d", " ", "-", "e">>, pubDate |-> "none",
      components |-> <<TextComponent>>]}

\* the dates a file name can begin with: those of the posts and the days of
\* the crawls
DateStrs == ({p.pubDate : p \in PostKinds} \ {"none"}) \cup {Days[i] : i \in 1..Len(Days)}

\* every name to_filename can give a post of PostKinds, on whatever day
Filenames ==
    {[to_filename(Metadata_metadata(p, NoImage)) EXCEPT ![1] = d] :
        p \in PostKinds, d \in DateStrs}

\* Exceptions the operating system and the network raise into the loop.
TooManyOpenFiles == [type |-> "OSError", msg |-> <<"[Errno 24] Too many open files">>]
ConnectionError == [type |-> "ConnectionError", msg |-> <<"Connection aborted.">>]
NoSpaceLeft == [type |-> "OSError", msg |-> <<"[Errno 28] No space left on device">>]

\* isinstance(e, cls): requests' ConnectionError is an IOError, that is an OSError
IsInstance(e, cls) ==
    CASE cls = "ValueError" -> e.type \in {"ValueError"}
      [] cls = "OSError" -> e.type \in {"OSError", "ConnectionError"}
      [] cls = "Exception" -> TRUE

\* needle in str(e)
InMessage(needle, e) ==
    \E i \in 1..Len(e.msg) :
        \/ needle = "Unknown component type" /\ e.msg[i] = "Unknown component type: "
        \/ needle = "Too many open files" /\ e.msg[i] = "[Errno 24] Too many open files"

\* The except clauses as they would be if every ValueError were raised again.
crawl_except_reraise(e) ==
    IF IsInstance(e, "ValueError") THEN "raise"
    ELSE IF IsInstance(e, "OSError")
    THEN IF InMessage("Too many open files", e) THEN "backoff" ELSE "raise"
    ELSE "skip_error"

\* The except clauses of crawl, lines 48-61: what the loop does with e.
crawl_except(e) ==
    IF IsInstance(e, "ValueError")
    THEN IF InMessage("Unknown component type", e) THEN "skip_unsupported" ELSE "raise"
    ELSE IF IsInstance(e, "OSError")
    THEN IF InMessage("Too many open files", e) THEN "backoff" ELSE "raise"
    ELSE "skip_error"

\* every block of the post put through _block_as_markdown
render_blocks(blocks, context) ==
    [i \in 1..Len(blocks) |-> _block_as_markdown(blocks[i], context)]

\* blocks_as_markdown over the generator: fm is the front matter rendered, bl
\* what as_blocks gave, rs its blocks rendered
render_post(fm, bl, rs) ==
    LET calls == fm.calls \o Join(<<>>, [i \in 1..Len(rs) |-> rs[i].calls])
    IN  IF fm.raised # "none"
        THEN [raised |-> fm.raised, msg |-> <<>>, text |-> <<>>, calls |-> fm.calls]
        ELSE IF bl.raised # "none"
        THEN [raised |-> bl.raised, msg |-> bl.msg, text |-> <<>>, calls |-> fm.calls]
        ELSE IF \E i \in 1..Len(rs) : rs[i].raised # "none"
        THEN [raised |-> "AssertionError", msg |-> <<>>, text |-> <<>>, calls |-> calls]
        ELSE [raised |-> "none", msg |-> <<>>,
              text |-> blocks_as_markdown(fm.text,
                          use_map([i \in 1..Len(rs) |->
                                      [status |-> "done", text |-> rs[i].text]], <<>>)).text,
              calls |-> calls]

\* as_markdown(**render_context): the front matter, then every block
as_markdown(post, preview_image, context) ==
    render_post(FrontMatterResult(Metadata_metadata(post, preview_image), context),
                as_blocks(post.components),
                render_blocks(as_blocks(post.components).blocks, context))

\* what became of a post in this run of the loop, and the exception that hit it
Outcome(handled, e) == [handled |-> handled, exc |-> e]

InitCrawl ==
    /\ kday = 1
    /\ klisting \in UNION {[1..n -> PostKinds] : n \in 0..MaxPosts}
    /\ kidx = 1
    /\ kpc = IF klisting = <<>> THEN "done" ELSE "fetch"
    /\ kfilename = <<>>
    /\ kmarkdown = <<>>
    /\ kfiles = [f \in Filenames |-> "absent"]
    /\ kdirs = {}
    /\ kassets = {}
    /\ krendered = {}
    /\ kcreated = {}
    /\ koutcome = [i \in 1..Len(klisting) |-> Outcome("none", NoException)]
    /\ kexc = NoException
    /\ krun = 1
    /\ kclean = FALSE
    /\ ImageOff
    /\ RenderOff
    /\ ListingOff
    /\ ClassifyOff
    /\ PreviewOff

\* continue, or the end of the body: the loop goes to the next post
Continue ==
    /\ kidx' = kidx + 1
    /\ kpc' = IF kidx + 1 > Len(klisting) THEN "done" ELSE "fetch"
    /\ kfilename' = <<>>
    /\ kmarkdown' = <<>>

\* an exception reaches the except clauses
Except(e) ==
    LET h == crawl_except(e)
    IN  /\ kexc' = e
        /\ koutcome' = [koutcome EXCEPT ![kidx] = Outcome(h, e)]
        /\ IF h = "raise"
           THEN kpc' = "raised" /\ UNCHANGED <<kidx, kfilename, kmarkdown>>
           ELSE IF h = "backoff"
           THEN kpc' = "backoff" /\ UNCHANGED <<kidx, kfilename, kmarkdown>>
           ELSE Continue

\* crawl, lines 23-30, once use_post has given the post and preview_image()
\* its first image: the file name is derived and the post skipped if the
\* file is there
CrawlFetched(post, preview) ==
    IF preview.raised # "none"
    THEN Except([type |-> preview.raised, msg |-> preview.msg])
    ELSE LET filename == to_filename(Metadata_metadata(post, preview.image))
         IN  IF kfiles[filename] # "absent"
             THEN /\ koutcome' = [koutcome EXCEPT ![kidx] = Outcome("exists", NoException)]
                  /\ Continue
                  /\ UNCHANGED kexc
             ELSE /\ kfilename' = filename
                  /\ kpc' = "mkdir"
                  /\ UNCHANGED <<kidx, kmarkdown, koutcome, kexc>>

\* crawl, lines 23-30: the post is fetched, its file name derived, and the
\* post skipped if the file is there
CrawlFetch ==
    /\ kpc = "fetch"
    /\ \E e \in {NoException, TooManyOpenFiles, ConnectionError} :
          IF e # NoException THEN Except(e)
          ELSE CrawlFetched(klisting[kidx],
                            _first_image_of_blocks(klisting[kidx].components))
    /\ UNCHANGED <<klisting, kfiles, kdirs, kassets, krendered, kcreated, krun, kday, kclean,
                   imageVars, renderVars, listingVars, classifyVars, previewVars>>

\* crawl, lines 33-40: the asset directory of the post
CrawlMkdir ==
    /\ kpc = "mkdir"
    /\ \E e \in {NoException, NoSpaceLeft} :
          IF e # NoException THEN Except(e) /\ UNCHANGED kdirs
          ELSE /\ kdirs' = kdirs \cup {kfilename}
               /\ kpc' = "render"
               /\ UNCHANGED <<kidx, kfilename, kmarkdown, koutcome, kexc>>
    /\ UNCHANGED <<klisting, kfiles, kassets, krendered, kcreated, krun, kday, kclean,
                   imageVars, renderVars, listingVars, classifyVars, previewVars>>

\* the files the fetch-local resolver wrote for the calls made of it
Downloads(calls, context) ==
    {_use_image_processor_with_fallback(context, calls[i]).wrote : i \in 1..Len(calls)}
        \ {<<>>}

\* the context crawl builds for a post, lines 36-40; o is what every request
\* for an image comes to
CrawlContext(o) ==
    [variant |-> "fetch", dirExists |-> kfilename \in kdirs,
     image_src_prefix |-> <<"assets/">> \o kfilename \o <<"/">>,
     outcomes |-> [s \in RenderSrcs |-> o]]

\* crawl, line 42, once as_markdown has returned or raised: md is its result
\* and downloads the image files it wrote on the way
CrawlRendered(md, downloads) ==
    /\ kassets' = kassets \cup {<<kfilename, f>> : f \in downloads}
    /\ IF md.raised # "none"
       THEN Except([type |-> md.raised, msg |-> md.msg]) /\ UNCHANGED krendered
       ELSE /\ kmarkdown' = md.text
            /\ krendered' = krendered \cup {kfilename}
            /\ kpc' = "write"
            /\ UNCHANGED <<kidx, kfilename, koutcome, kexc>>

\* what as_markdown gives for the post at hand
CrawlMarkdown(post, preview, context) == as_markdown(post, preview.image, context)

\* crawl, line 42: the post is rendered in memory, its images fetched
CrawlRender ==
    /\ kpc = "render"
    /\ \E e \in {NoException, TooManyOpenFiles}, o \in {"ok", "request_error"} :
          IF e # NoException THEN Except(e) /\ UNCHANGED <<kassets, krendered>>
          ELSE \E md \in {CrawlMarkdown(klisting[kidx],
                                        _first_image_of_blocks(klisting[kidx].components),
                                        CrawlContext(o))} :
                  CrawlRendered(md, Downloads(md.calls, CrawlContext(o)))
    /\ UNCHANGED <<klisting, kfiles, kdirs, kcreated, krun, kday, kclean,
                   imageVars, renderVars, listingVars, classifyVars, previewVars>>

\* crawl, line 43, write_text opening the file: the file is created empty
CrawlWriteOpen ==
    /\ kpc = "write"
    /\ \E e \in {NoException, TooManyOpenFiles} :
          IF e # NoException THEN Except(e) /\ UNCHANGED <<kfiles, kcreated>>
          ELSE /\ kfiles' = [kfiles EXCEPT ![kfilename] = "partial"]
               /\ kcreated' = kcreated \cup {kidx}
               /\ kpc' = "write_data"
               /\ UNCHANGED <<kidx, kfilename, kmarkdown, koutcome, kexc>>
    /\ UNCHANGED <<klisting, kdirs, kassets, krendered, krun, kday, kclean,
                   imageVars, renderVars, listingVars, classifyVars, previewVars>>

\* crawl, lines 43-44, write_text writing the text and closing the file
CrawlWriteData ==
    /\ kpc = "write_data"
    /\ \E e \in {NoException, NoSpaceLeft} :
          IF e # NoException THEN Except(e) /\ UNCHANGED kfiles
          ELSE /\ kfiles' = [kfiles EXCEPT ![kfilename] = "complete"]
               /\ koutcome' = [koutcome EXCEPT ![kidx] = Outcome("saved", NoException)]
               /\ kpc' = "sleep"
               /\ UNCHANGED <<kidx, kfilename, kmarkdown, kexc>>
    /\ UNCHANGED <<klisting, kdirs, kassets, krendered, kcreated, krun, kday, kclean,
                   imageVars, renderVars, listingVars, classifyVars, previewVars>>

\* crawl, line 46: time.sleep(0.2), then the next post
CrawlSleep ==
    /\ kpc = "sleep"
    /\ Continue
    /\ UNCHANGED <<klisting, kfiles, kdirs, kassets, krendered, kcreated, koutcome, kexc,
                   krun, kday, kclean, imageVars, renderVars, listingVars, classifyVars, previewVars>>

\* crawl, lines 55-57: time.sleep(2), then continue
CrawlBackoff ==
    /\ kpc = "backoff"
    /\ Continue
    /\ UNCHANGED <<klisting, kfiles, kdirs, kassets, krendered, kcreated, koutcome, kexc,
                   krun, kday, kclean, imageVars, renderVars, listingVars, classifyVars, previewVars>>

\* crawl is invoked again over the same listing and the same disk
CrawlAgain ==
    /\ kpc \in {"done", "raised"}
    /\ krun < MaxCrawls
    /\ krun' = krun + 1
    /\ kidx' = 1
    /\ kpc' = IF klisting = <<>> THEN "done" ELSE "fetch"
    /\ kfilename' = <<>>
    /\ kmarkdown' = <<>>
    /\ kcreated' = {}
    /\ koutcome' = [i \in 1..Len(klisting) |-> Outcome("none", NoException)]
    /\ kexc' = NoException
    /\ kday' \in {kday, IF kday < Len(Days) THEN kday + 1 ELSE kday}
    /\ kclean' = (kpc = "done" /\ \A i \in 1..Len(klisting) : koutcome[i].exc = NoException)
    /\ UNCHANGED <<klisting, kfiles, kdirs, kassets, krendered,
                   imageVars, renderVars, listingVars, classifyVars, previewVars>>

NextCrawl ==
    \/ CrawlFetch
    \/ CrawlMkdir
    \/ CrawlRender
    \/ CrawlWriteOpen
    \/ CrawlWriteData
    \/ CrawlSleep
    \/ CrawlBackoff
    \/ CrawlAgain

SpecCrawl == InitCrawl /\ [][NextCrawl]_vars


\* the exception is the classifier's, about a discriminant it does not know
IsUnknownComponent(e) ==
    /\ e.type = "ValueError"
    /\ Len(e.msg) = 2
    /\ e.msg[1] = "Unknown component type: "
    /\ e.msg[2] \notin KnownVocabulary

IsTooManyOpenFiles(e) == e = TooManyOpenFiles

\* C5: a component of an unknown discriminant makes the classifier fail with
\* a ValueError that names the discriminant; a post that this error hit is
\* skipped: no Markdown file was created for it in this run, the loop did
\* not end on it and has gone on to the next post.
C5_UnknownComponentSkipsPost ==
    /\ \A c \in AllComponents :
          c.cls \notin KnownVocabulary =>
              as_blocks_case(c) = Raise("ValueError", <<"Unknown component type: ", c.cls>>)
    /\ \A i \in 1..Len(klisting) :
          (\E j \in 1..Len(klisting[i].components) :
               /\ klisting[i].components[j].cls \notin KnownVocabulary
               /\ koutcome[i].exc.type = "ValueError")
            => /\ IsUnknownComponent(koutcome[i].exc)
               /\ koutcome[i].handled = "skip_unsupported"
               /\ i \notin kcreated
               /\ kidx > i

\* C5 witness: the first post of two was skipped for an unknown component
\* that stands after its first image, and the second post was saved.
C5_Witness ==
    /\ Len(klisting) = 2
    /\ klisting[1].log_no = 4
    /\ koutcome[1].handled = "skip_unsupported"
    /\ koutcome[1].exc.msg = <<"Unknown component type: ", "se-video">>
    /\ koutcome[2].handled = "saved"
    /\ kfiles[to_filename(Metadata_metadata(klisting[1], NoImage))] = "absent"

\* C6: after the pause for too many open files the loop processes the same
\* post again.
C6_RetriesSamePost == [][kpc = "backoff" => (kpc' = "fetch" /\ kidx' = kidx)]_vars

\* C7: an exception that is neither the unknown-component error nor the
\* too-many-open-files error never ends the loop: the post it hit is skipped
\* and the loop goes on.
C7_OtherExceptionsSkipPost ==
    \A i \in 1..Len(klisting) :
        (/\ koutcome[i].exc # NoException
         /\ ~IsUnknownComponent(koutcome[i].exc)
         /\ ~IsTooManyOpenFiles(koutcome[i].exc))
          => koutcome[i].handled = "skip_error" /\ kpc # "raised"

\* C8: a Markdown file is on disk only if a post of that file name was
\* rendered in full, and a post whose processing failed, at whatever stage,
\* has left no file.
C8_NoPartialArtifacts ==
    /\ \A f \in Filenames : kfiles[f] # "absent" => f \in krendered
    /\ \A i \in 1..Len(klisting) : koutcome[i].exc # NoException => i \notin kcreated

\* C11: the loop never goes from one post to the next without a delay step
\* in between (time.sleep), whether the post was saved, skipped as already
\* existing, or failed.
C11_DelayBetweenPosts ==
    [][(kidx' = kidx + 1 /\ kpc' = "fetch") => kpc \in {"sleep", "backoff"}]_vars

\* the file the post the loop is at would be saved as
CurrentFile == to_filename(Metadata_metadata(klisting[kidx], NoImage))

\* C12: a post whose file is there when it is processed is skipped with no
\* asset directory made, nothing rendered, no image fetched and no file
\* touched; and a crawl that follows a crawl in which no post failed, over
\* the same listing, writes no file.
C12_ExistingFileSkipsPost ==
    [][/\ (kpc = "fetch" /\ kfiles[CurrentFile] # "absent")
            => /\ UNCHANGED <<kfiles, kdirs, kassets, krendered, kcreated>>
               /\ kpc' # "mkdir"
       /\ kclean => kfiles' = kfiles]_vars

(***************************************************************************)
(* _first_image_of_blocks of blog/hooks.py, lines 103-115, over an         *)
(* iterator of blocks.  None is NoImage.                                   *)
(***************************************************************************)
\* The blocks a sequence is drawn from; an image strip none of whose modules
\* has an <img> gives the group of no images.
PreviewBlocks ==
    {ParagraphBlock(<<"hello">>),
     SectionTitleBlock(<<"Title">>),
     ImageBlock(SrcA, <<"cap">>),
     ImageBlock(SrcB, <<>>),
     ImageGroupBlock(<<ImageBlock(SrcB, <<"x">>), ImageBlock(SrcA, <<>>)>>),
     ImageGroupBlock(<<>>)}

InitPreview ==
    /\ pblocks \in UNION {[1..n -> PreviewBlocks] : n \in 0..MaxPreviewLen}
    /\ ppos = 0
    /\ ppc = "next"
    /\ presult = NoImage
    /\ ImageOff
    /\ RenderOff
    /\ ListingOff
    /\ ClassifyOff
    /\ CrawlOff

\* lines 104-107: next(blocks) raises StopIteration and the call returns None
FirstImageStop ==
    /\ ppc = "next"
    /\ ppos = Len(pblocks)
    /\ ppc' = "returned"
    /\ presult' = NoImage
    /\ UNCHANGED <<pblocks, ppos, imageVars, renderVars, listingVars, classifyVars, crawlVars>>

\* lines 105 and 109-115: next(blocks) gives a block and the match statement
\* returns an image, fails on images[0], or calls the function again on the
\* same iterator
FirstImageMatch ==
    /\ ppc = "next"
    /\ ppos < Len(pblocks)
    /\ ppos' = ppos + 1
    /\ LET block == pblocks[ppos + 1]
       IN  IF block.type = "Image"
           THEN /\ ppc' = "returned"
                /\ presult' = [found |-> TRUE, src |-> block.src, alt |-> block.alt]
           ELSE IF block.type = "ImageGroup"
           THEN IF block.images = <<>>
                THEN ppc' = "IndexError" /\ UNCHANGED presult
                ELSE /\ ppc' = "returned"
                     /\ presult' = [found |-> TRUE, src |-> block.images[1].src,
                                    alt |-> block.images[1].alt]
           ELSE ppc' = "next" /\ UNCHANGED presult
    /\ UNCHANGED <<pblocks, imageVars, renderVars, listingVars, classifyVars, crawlVars>>

NextPreview == FirstImageStop \/ FirstImageMatch

SpecPreview == InitPreview /\ [][NextPreview]_vars

\* the block has an image to give
HasImage(block) ==
    \/ block.type = "Image"
    \/ block.type = "ImageGroup" /\ block.images # <<>>

\* the block is a group of no images
IsEmptyGroup(block) == block.type = "ImageGroup" /\ block.images = <<>>

\* the image of a block that has one
ImageOf(block) ==
    IF block.type = "Image" THEN [found |-> TRUE, src |-> block.src, alt |-> block.alt]
    ELSE [found |-> TRUE, src |-> block.images[1].src, alt |-> block.images[1].alt]

\* C13: for every block sequence the derivation of the preview image ends
\* without error; it returns the image of the first block that has one, an
\* Image as is and the first image of an ImageGroup, when no group of no
\* images stands before it, and returns no image when no block has one.
C13_FirstImageWithoutError ==
    /\ ppc \in {"off", "next", "returned"}
    /\ ppc = "returned" =>
          /\ (\A i \in 1..Len(pblocks) : ~HasImage(pblocks[i])) => presult = NoImage
          /\ \A i \in 1..Len(pblocks) :
                (/\ HasImage(pblocks[i])
                 /\ \A j \in 1..(i - 1) : ~HasImage(pblocks[j]) /\ ~IsEmptyGroup(pblocks[j]))
                  => presult = ImageOf(pblocks[i])

====
